---- MODULE Spec2Model ----
(***************************************************************************)
(* Eatly backend: the restaurant endpoints (apps/restaurants, with the     *)
(* category actions of the older apps/restaurant), the user store and the  *)
(* role promotion, as a state machine over the database tables.            *)
(*                                                                         *)
(* One action is one HTTP request handled to completion: authentication,   *)
(* DRF's check_permissions over get_permissions(), the handler body and    *)
(* the response.  `last` holds the most recent request and its response.   *)
(***************************************************************************)
EXTENDS Integers, Sequences, FiniteSets, TLC

\* ------------------------------------------------------------------ bounds
MaxUsers == 2
MaxRestaurants == 2
NumCategories == 2
MaxPending == 2
MaxPosts == 2
MaxComments == 2
MaxLikes == 2
MaxSubscriptions == 2

\* ------------------------------------------------------- program constants
HTTP_200_OK == 200
HTTP_201_CREATED == 201
HTTP_204_NO_CONTENT == 204
HTTP_400_BAD_REQUEST == 400
HTTP_401_UNAUTHORIZED == 401
HTTP_403_FORBIDDEN == 403
HTTP_404_NOT_FOUND == 404
\* An exception that leaves the handler unhandled is answered by Django's 500.
HTTP_500_INTERNAL_SERVER_ERROR == 500

\* UserRoleEntity / User.ROLE_CHOICES; a CharField without default stores "".
OWNER == "owner"
CUSTOMER == "customer"
NO_ROLE == ""
ROLE_CHOICES == {CUSTOMER, OWNER}

\* request.user of a request without credentials (AnonymousUser)
Anonymous == 0

NULL == "null"
SET == "set"
Missing == "-"

UserIds == 1..MaxUsers
\* primary keys a URL may name: the rows that can exist and one that never does
PkIds == 1..(MaxRestaurants + 1)
CategoryIds == 1..NumCategories
Names == {"a", "b"}

VARIABLES
    users,                \* table CustomUser: sequence of rows, id = index
    restaurants,          \* table Restaurant: sequence of rows, id = index
    restaurant_category,  \* table RestaurantCategory: set of <<restaurant id, category id>>
    pending,              \* register requests that passed is_valid() and have not saved yet
    posts,                \* table Post: sequence of rows, id = index, Gone once deleted
    comments,             \* table Comment, likewise
    likes,                \* table UserLike, likewise
    subscriptions,        \* table UserSubscription, likewise
    last                  \* the last request and its response

vars == <<users, restaurants, restaurant_category, pending,
          posts, comments, likes, subscriptions, last>>
db == <<users, restaurants, restaurant_category>>
\* the tables of apps/services
services == <<posts, comments, likes, subscriptions>>
\* what the restaurant handlers and the user fixtures never touch
elsewhere == <<pending, services>>
\* what the handlers of apps/services never touch
outside_services == <<db, pending>>

\* ------------------------------------------------------------------ tables
\* models.py Restaurant: owner FK, name, image_url, deleted_at (soft delete mark)
NewRestaurant(owner, name) ==
    [owner |-> owner, name |-> name, image_url |-> NULL, deleted_at |-> NULL]

\* restaurant.categories: the categories linked to restaurant r through the join table
categories(r) == {c \in CategoryIds : <<r, c>> \in restaurant_category}

\* Restaurant.objects.get(pk=pk): the default manager, which does not look at deleted_at
RestaurantExists(pk) == pk \in DOMAIN restaurants

\* Restaurant.objects.filter(owner=user): ids of the rows whose owner is u
OwnedBy(u) == {r \in DOMAIN restaurants : restaurants[r].owner = u}

Min(S) == CHOOSE x \in S : \A y \in S : x <= y

\* mutant: the owner filter forgotten, Restaurant.objects.first()
first_restaurant(u) == IF DOMAIN restaurants = {} THEN 0 ELSE Min(DOMAIN restaurants)

\* Restaurant.objects.filter(owner=request.user).first(): lowest pk, 0 for None
owner_restaurant(u) == IF OwnedBy(u) = {} THEN 0 ELSE Min(OwnedBy(u))

\* mutant: the None check forgotten
is_none_never(r) == FALSE

\* "if not restaurant:" after the owner lookup
is_none(r) == r = 0

\* the categories linked to restaurant r in a given join table
categories_in(table, r) == {c \in CategoryIds : <<r, c>> \in table}

\* ------------------------------------------------------------- permissions
\* RestaurantViewSet.get_permissions: chosen by self.action alone; the
\* permission_classes given to @action are never read.
get_permissions(action) ==
    IF action = "list" THEN <<"IsAuthenticated">>
    ELSE IF action = "create" THEN <<"IsAuthenticated", "AllowAny">>
    ELSE IF action \in {"retrieve", "update", "partial_update", "destroy"}
         THEN <<"IsAuthenticated", "IsRestaurantOwner">>
    ELSE <<"AllowAny">>

\* has_permission of each class: IsRestaurantOwner defines only
\* has_object_permission, so it inherits BasePermission.has_permission (True).
has_permission(perm, u) ==
    IF perm = "IsAuthenticated" THEN u # Anonymous ELSE TRUE

\* APIView.check_permissions: 0 when every permission grants, otherwise the
\* status of permission_denied (the only class that can refuse here is
\* IsAuthenticated, refused to an anonymous request: NotAuthenticated, 401).
check_permissions(action, u) ==
    IF \A i \in DOMAIN get_permissions(action) : has_permission(get_permissions(action)[i], u)
    THEN 0
    ELSE HTTP_401_UNAUTHORIZED

\* IsRestaurantOwner.has_object_permission(request, view, obj) for obj a pk.
\* No handler calls check_object_permissions, so no request evaluates it.
has_object_permission(u, pk) ==
    IF ~RestaurantExists(pk) THEN FALSE ELSE restaurants[pk].owner = u

\* ---------------------------------------------------------------- response
\* ids is the id list a category or delivery request carried, before the links
\* the caller's restaurant had when the request reached the join table
Respond(action, u, pk, ids, before, status, detail) ==
    last' = [action |-> action, user |-> u, pk |-> pk, ids |-> ids,
             before |-> before, status |-> status, detail |-> detail]

\* who may send a request: a stored user with a valid token, or nobody
Callers == DOMAIN users \cup {Anonymous}

Init ==
    /\ users = <<>>
    /\ restaurants = <<>>
    /\ restaurant_category = {}
    /\ pending = <<>>
    /\ posts = <<>>
    /\ comments = <<>>
    /\ likes = <<>>
    /\ subscriptions = <<>>
    /\ last = [action |-> "none", user |-> Anonymous, pk |-> 0, ids |-> {},
               before |-> {}, status |-> 0, detail |-> ""]

\* -------------------------------------------------------------------- users
\* an email address: local part and domain part
Locals == 1..MaxUsers
Domains == {"x.com", "X.COM"}
Emails == [local : Locals, domain : Domains]

\* str.lower() on a domain part
lower(domain) == IF domain = "X.COM" THEN "x.com" ELSE domain

\* BaseUserManager.normalize_email: the domain part lowercased, the local part kept
normalize_email(email) == [email EXCEPT !.domain = lower(@)]

Passwords == {"Password1", "Password2"}

\* set_password / make_password: the stored value is a hash, not the password
make_password(password) == <<"hash", password>>

\* user.check_password(password)
check_password(row, password) == row.password = make_password(password)

\* the email column of a user table
emails_of(table) == {table[i].email : i \in DOMAIN table}

\* User.objects.filter(email=value).exists(): exact match on the column
email_exists(value) == value \in emails_of(users)

\* the email and password the fixtures give to the next user
fixture_email ==
    [local |-> IF Len(users) < MaxUsers THEN Len(users) + 1 ELSE MaxUsers, domain |-> "x.com"]
fixture_password == "Password1"

\* CustomUserManager.create_user(email, name, password, role=...): how fixtures
\* and the shell make users; the unique index on email refuses a stored value
create_user(role, email, password) ==
    /\ UNCHANGED elsewhere
    /\ /\ Len(users) < MaxUsers
       /\ normalize_email(email) \notin emails_of(users)
       /\ users' = Append(users, [role |-> role, role_writes |-> 0,
                                  email |-> normalize_email(email),
                                  password |-> make_password(password)])
       /\ UNCHANGED <<restaurants, restaurant_category>>
       /\ Respond("create_user", Anonymous, 0, {}, {}, 0, "")

\* request bodies of register: name, email and password are required
RegisterPayloads == [name : {"n", Missing}, email : Emails, password : Passwords]

\* UserRegisterSerializer(data=request.data).is_valid(): required fields and
\* validate_email, which looks the address up as it was sent
UserRegisterSerializer_is_valid(data) ==
    data.name # Missing /\ ~email_exists(data.email)

\* UserRegisterSerializer.create: create_user(email, name, password), no role
UserRegisterSerializer_create(data) ==
    [role |-> NO_ROLE, role_writes |-> 0,
     email |-> normalize_email(data.email),
     password |-> make_password(data.password)]

\* the INSERT of serializer.save(): IntegrityError when the email is stored
\* already (500, nothing written), otherwise the row is added (201)
register_insert(data) ==
    IF normalize_email(data.email) \in emails_of(users)
    THEN /\ UNCHANGED db
         /\ Respond("register", Anonymous, 0, {}, {}, HTTP_500_INTERNAL_SERVER_ERROR, "")
    ELSE /\ Len(users) < MaxUsers
         /\ users' = Append(users, UserRegisterSerializer_create(data))
         /\ UNCHANGED <<restaurants, restaurant_category>>
         /\ Respond("register", Anonymous, Len(users) + 1, {}, {}, HTTP_201_CREATED, "")

\* UserViewSet.register, handled with no other request in between
register(data) ==
    /\ UNCHANGED elsewhere
    /\ IF ~UserRegisterSerializer_is_valid(data)
       THEN /\ UNCHANGED db
            /\ Respond("register", Anonymous, 0, {}, {}, HTTP_400_BAD_REQUEST, "")
       ELSE register_insert(data)

\* UserViewSet.register up to serializer.is_valid(): a refused request is
\* answered, an accepted one goes on to save() while other requests may run
register_is_valid(data) ==
    IF ~UserRegisterSerializer_is_valid(data)
    THEN /\ UNCHANGED <<db, pending, services>>
         /\ Respond("register", Anonymous, 0, {}, {}, HTTP_400_BAD_REQUEST, "")
    ELSE /\ Len(pending) < MaxPending
         /\ pending' = Append(pending, data)
         /\ UNCHANGED <<db, services, last>>

\* UserViewSet.register from serializer.save() on, for the i-th request in flight
register_save(i) ==
    /\ UNCHANGED services
    /\ i \in DOMAIN pending
    /\ pending' = [j \in 1..(Len(pending) - 1) |-> IF j < i THEN pending[j] ELSE pending[j + 1]]
    /\ register_insert(pending[i])

\* -------------------------------------------------------------------- login
\* request bodies of login: email, and a password that may be shorter than
\* the serializer's min_length
LoginPayloads == [email : Emails, password : Passwords \cup {"short"}]

\* User.objects.get(email=email): the id of the row with that address, 0 for DoesNotExist
get_by_email(email) ==
    IF \E u \in DOMAIN users : users[u].email = email
    THEN CHOOSE u \in DOMAIN users : users[u].email = email
    ELSE 0

\* mutant: a message of its own for an address that is not registered
UserLoginSerializer_validate_telling(data) ==
    IF get_by_email(data.email) = 0 THEN "No user with this email."
    ELSE IF ~check_password(users[get_by_email(data.email)], data.password)
    THEN "Invalid email or password."
    ELSE ""

\* UserLoginSerializer.validate: the error raised, "" when the user is found
\* and the password matches
UserLoginSerializer_validate(data) ==
    IF get_by_email(data.email) = 0 THEN "Invalid email or password."
    ELSE IF ~check_password(users[get_by_email(data.email)], data.password)
    THEN "Invalid email or password."
    ELSE ""

\* UserLoginSerializer(data).is_valid(): field errors first (password
\* min_length=8), validate() only when the fields passed
UserLoginSerializer_errors(data) ==
    IF data.password = "short" THEN "password: min_length"
    ELSE UserLoginSerializer_validate(data)

\* status and body of the answer to a login: the errors, or a token pair
login_response(data) ==
    IF UserLoginSerializer_errors(data) # ""
    THEN [status |-> HTTP_400_BAD_REQUEST, detail |-> UserLoginSerializer_errors(data)]
    ELSE [status |-> HTTP_200_OK, detail |-> "access, refresh"]

\* UserViewSet.login; pk records the row the address named, the response is
\* status and detail
login(data) ==
    /\ UNCHANGED <<db, pending, services>>
    /\ Respond("login", Anonymous, get_by_email(data.email), {}, {},
               login_response(data).status, login_response(data).detail)

\* -------------------------------------------------------------- serializers
\* request bodies of add: name is required, address_link is a URLField; owner
\* is a key the serializer does not declare (0 stands for no owner key)
AddPayloads ==
    [name : Names \cup {Missing}, address_link : {"ok", "bad"}, owner : 0..MaxUsers]

\* the owner key of a request body, as the id list the response records
owner_key(data) == IF data.owner = 0 THEN {} ELSE {data.owner}

\* mutant: address_link taken as a plain CharField, the URL check gone
RestaurantCreateSerializer_is_valid_no_url(data) ==
    data.name # Missing

\* RestaurantCreateSerializer(data=request.data).is_valid()
RestaurantCreateSerializer_is_valid(data) ==
    data.name # Missing /\ data.address_link # "bad"

\* request bodies of PATCH: at most one key each; owner 0 stands for no owner key
PatchPayloads ==
    {d \in [name : Names \cup {Missing}, owner : 0..MaxUsers,
            deleted_at : {Missing, NULL, SET}, address_link : {Missing, "bad"}] :
        Cardinality({k \in {"name", "owner", "deleted_at", "address_link"} :
            \/ k = "name" /\ d.name # Missing
            \/ k = "owner" /\ d.owner # 0
            \/ k = "deleted_at" /\ d.deleted_at # Missing
            \/ k = "address_link" /\ d.address_link # Missing}) <= 1}

\* RestaurantBaseSerializer(restaurant, data, partial=True).is_valid(): fields
\* '__all__', so owner is a writable PrimaryKeyRelatedField over the users
RestaurantBaseSerializer_is_valid(data) ==
    /\ data.address_link # "bad"
    /\ data.owner # 0 => data.owner \in DOMAIN users

\* serializer.save() of a partial update: the keys present overwrite the row
RestaurantBaseSerializer_update(row, data) ==
    [row EXCEPT !.name = IF data.name # Missing THEN data.name ELSE @,
                !.owner = IF data.owner # 0 THEN data.owner ELSE @,
                !.deleted_at = IF data.deleted_at # Missing THEN data.deleted_at ELSE @]

\* ImageURLSerializer / CategoryAssignSerializer / DeliveryAssignSerializer
ImagePayloads == {"url", "bad"}
IdPayloads == SUBSET CategoryIds
DeliveryPayloads == {{}, {1}}
\* ListField(child=IntegerField(), min_length=1)
IdList_is_valid(ids) == ids # {}

\* ------------------------------------------------------ add (role promotion)
\* mutant: the promotion step forgotten
promote_never(row) == row

\* mutant: the role written on every add
promote_always(row) == [row EXCEPT !.role = OWNER, !.role_writes = @ + 1]

\* add, lines 238-241: the role write happens only for a user who is not yet owner
promote(row) ==
    IF row.role # OWNER
    THEN [row EXCEPT !.role = OWNER, !.role_writes = @ + 1]
    ELSE row

\* mutant: owner declared as a serializer field and taken from the payload
RestaurantCreateSerializer_save_from_payload(data, owner) ==
    NewRestaurant(IF data.owner # 0 THEN data.owner ELSE owner, data.name)

\* serializer.save(owner=user): the row is built from the declared fields
\* (name, description, address, address_link) and the keyword argument
RestaurantCreateSerializer_save(data, owner) == NewRestaurant(owner, data.name)

\* RestaurantViewSet.add; the response records the owner key the body carried
add(u, data) ==
    /\ UNCHANGED elsewhere
    /\ IF check_permissions("add", u) # 0
       THEN /\ UNCHANGED db
            /\ Respond("add", u, 0, owner_key(data), {}, check_permissions("add", u), "")
       ELSE IF ~RestaurantCreateSerializer_is_valid(data)
       THEN /\ UNCHANGED db
            /\ Respond("add", u, 0, owner_key(data), {}, HTTP_400_BAD_REQUEST, "")
       ELSE IF u = Anonymous
       THEN \* AnonymousUser has no attribute role: AttributeError
            /\ UNCHANGED db
            /\ Respond("add", u, 0, owner_key(data), {}, HTTP_500_INTERNAL_SERVER_ERROR, "")
       ELSE /\ Len(restaurants) < MaxRestaurants
            /\ users' = [users EXCEPT ![u] = promote(@)]
            /\ restaurants' = Append(restaurants, RestaurantCreateSerializer_save(data, u))
            /\ UNCHANGED restaurant_category
            /\ Respond("add", u, Len(restaurants) + 1, owner_key(data), {}, HTTP_201_CREATED, "")

\* An add request in flight between its two writes.  The handler runs in
\* autocommit (no transaction.atomic, no ATOMIC_REQUESTS): user.save(update_fields
\* =["role"]) is committed on its own, before serializer.save(owner=user).
AddInFlight(u, data) == [request |-> "add", user |-> u, data |-> data]

\* RestaurantViewSet.add up to and including the role write, lines 231-241, for
\* a request that gets that far (authenticated, valid body)
add_role_write(u, data) ==
    /\ u # Anonymous
    /\ check_permissions("add", u) = 0
    /\ RestaurantCreateSerializer_is_valid(data)
    /\ Len(pending) < MaxPending
    /\ Len(restaurants) + Len(pending) < MaxRestaurants
    /\ users' = [users EXCEPT ![u] = promote(@)]
    /\ pending' = Append(pending, AddInFlight(u, data))
    /\ UNCHANGED <<restaurants, restaurant_category, services, last>>

\* RestaurantViewSet.add from serializer.save(owner=user) on, line 243, for the
\* i-th request in flight
add_save(i) ==
    /\ i \in DOMAIN pending
    /\ pending' = [j \in 1..(Len(pending) - 1) |-> IF j < i THEN pending[j] ELSE pending[j + 1]]
    /\ restaurants' = Append(restaurants,
                             RestaurantCreateSerializer_save(pending[i].data, pending[i].user))
    /\ UNCHANGED <<users, restaurant_category, services>>
    /\ Respond("add", pending[i].user, Len(restaurants) + 1, owner_key(pending[i].data), {},
               HTTP_201_CREATED, "")

\* ------------------------------------------- retrieve / destroy / partial_update
\* RestaurantViewSet.retrieve
retrieve(u, pk) ==
    /\ UNCHANGED elsewhere
    /\ /\ UNCHANGED db
       /\ IF check_permissions("retrieve", u) # 0
          THEN Respond("retrieve", u, pk, {}, {}, check_permissions("retrieve", u), "")
          ELSE IF ~RestaurantExists(pk)
          THEN Respond("retrieve", u, pk, {}, {}, HTTP_404_NOT_FOUND, "Restaurant not found.")
          ELSE Respond("retrieve", u, pk, {}, {}, HTTP_200_OK, "")

\* AbstractSoftDeleteModel.delete: marks the row, removes nothing
soft_delete(row) == [row EXCEPT !.deleted_at = SET]

\* mutant: destroy hands the role back once the owner's restaurants are all deleted
destroy_demoting(u, pk) ==
    /\ UNCHANGED elsewhere
    /\ /\ u # Anonymous
       /\ RestaurantExists(pk)
       /\ restaurants' = [restaurants EXCEPT ![pk] = soft_delete(@)]
       /\ users' = [users EXCEPT ![restaurants[pk].owner].role =
                       IF \A r \in DOMAIN restaurants :
                             restaurants'[r].owner = restaurants[pk].owner
                             => restaurants'[r].deleted_at = SET
                       THEN CUSTOMER ELSE @]
       /\ UNCHANGED restaurant_category
       /\ Respond("destroy", u, pk, {}, {}, HTTP_204_NO_CONTENT, "")

\* RestaurantViewSet.destroy
destroy(u, pk) ==
    /\ UNCHANGED elsewhere
    /\ IF check_permissions("destroy", u) # 0
       THEN /\ UNCHANGED db
            /\ Respond("destroy", u, pk, {}, {}, check_permissions("destroy", u), "")
       ELSE IF ~RestaurantExists(pk)
       THEN /\ UNCHANGED db
            /\ Respond("destroy", u, pk, {}, {}, HTTP_404_NOT_FOUND, "Restaurant not found.")
       ELSE /\ restaurants' = [restaurants EXCEPT ![pk] = soft_delete(@)]
            /\ UNCHANGED <<users, restaurant_category>>
            /\ Respond("destroy", u, pk, {}, {}, HTTP_204_NO_CONTENT, "")

\* RestaurantViewSet.partial_update
partial_update(u, pk, data) ==
    /\ UNCHANGED elsewhere
    /\ IF check_permissions("partial_update", u) # 0
       THEN /\ UNCHANGED db
            /\ Respond("partial_update", u, pk, {}, {},
                       check_permissions("partial_update", u), "")
       ELSE IF ~RestaurantExists(pk)
       THEN /\ UNCHANGED db
            /\ Respond("partial_update", u, pk, {}, {}, HTTP_404_NOT_FOUND,
                       "Restaurant not found.")
       ELSE IF ~RestaurantBaseSerializer_is_valid(data)
       THEN /\ UNCHANGED db
            /\ Respond("partial_update", u, pk, {}, {}, HTTP_400_BAD_REQUEST, "")
       ELSE /\ restaurants' = [restaurants EXCEPT
                                 ![pk] = RestaurantBaseSerializer_update(@, data)]
            /\ UNCHANGED <<users, restaurant_category>>
            /\ Respond("partial_update", u, pk, {}, {}, HTTP_200_OK, "")

\* ------------------------------------------------------------------ set_image
\* RestaurantViewSet.set_image
set_image(u, image_url) ==
    /\ UNCHANGED elsewhere
    /\ IF check_permissions("set_image", u) # 0
       THEN /\ UNCHANGED db
            /\ Respond("set_image", u, 0, {}, {}, check_permissions("set_image", u), "")
       ELSE IF image_url = "bad"
       THEN /\ UNCHANGED db
            /\ Respond("set_image", u, 0, {}, {}, HTTP_400_BAD_REQUEST, "")
       ELSE IF u = Anonymous
       THEN \* filter(owner=AnonymousUser): TypeError from the id field
            /\ UNCHANGED db
            /\ Respond("set_image", u, 0, {}, {}, HTTP_500_INTERNAL_SERVER_ERROR, "")
       ELSE IF is_none(owner_restaurant(u))
       THEN /\ UNCHANGED db
            /\ Respond("set_image", u, 0, {}, {}, HTTP_404_NOT_FOUND, "Restaurant not found.")
       ELSE /\ restaurants' = [restaurants EXCEPT ![owner_restaurant(u)].image_url = image_url]
            /\ UNCHANGED <<users, restaurant_category>>
            /\ Respond("set_image", u, owner_restaurant(u), {}, {}, HTTP_200_OK,
                       "Image updated.")

\* ------------------------------------------------------------ category toggle
\* mutant: add() in place of set(), the new links united with the old
categories_add(linked, ids) == linked \cup ids

\* restaurant.categories.set(ids): the links become exactly ids
categories_set(linked, ids) == ids

\* mutant: a per-element toggle, unlinked ids of the request get linked
categories_flip(linked, ids) == (linked \ ids) \cup (ids \ linked)

\* restaurant.categories.remove(*ids): the links lose ids
categories_remove(linked, ids) == linked \ ids

\* restaurant.categories.filter(id__in=ids).exists()
categories_overlap(linked, ids) == linked \cap ids # {}

\* the join table with the links of restaurant r replaced by S
WithCategories(r, S) ==
    {p \in restaurant_category : p[1] # r} \cup {<<r, c>> : c \in S}

\* RestaurantViewSet.assign_categories (apps/restaurants): assign or unassign
assign_categories(u, ids) ==
    /\ UNCHANGED elsewhere
    /\ IF check_permissions("assign_categories", u) # 0
       THEN /\ UNCHANGED db
            /\ Respond("assign_categories", u, 0, ids, {},
                       check_permissions("assign_categories", u), "")
       ELSE IF ~IdList_is_valid(ids)
       THEN /\ UNCHANGED db
            /\ Respond("assign_categories", u, 0, ids, {}, HTTP_400_BAD_REQUEST, "")
       ELSE IF u = Anonymous
       THEN /\ UNCHANGED db
            /\ Respond("assign_categories", u, 0, ids, {}, HTTP_500_INTERNAL_SERVER_ERROR, "")
       ELSE IF is_none(owner_restaurant(u))
       THEN /\ UNCHANGED db
            /\ Respond("assign_categories", u, 0, ids, {}, HTTP_404_NOT_FOUND,
                       "Restaurant not found.")
       ELSE LET r == owner_restaurant(u)
                linked == categories(r)
            IN  /\ UNCHANGED <<users, restaurants>>
                /\ IF categories_overlap(linked, ids)
                   THEN /\ restaurant_category' = WithCategories(r, categories_remove(linked, ids))
                        /\ Respond("assign_categories", u, r, ids, linked, HTTP_200_OK,
                                   "Categories unassigned.")
                   ELSE /\ restaurant_category' = WithCategories(r, categories_set(linked, ids))
                        /\ Respond("assign_categories", u, r, ids, linked, HTTP_200_OK,
                                   "Categories assigned.")

\* RestaurantViewSet.add_delivery_method (apps/restaurants): Restaurant has no
\* attribute delivery_methods (DeliveryLink's related_name is delivery_links),
\* so a request that reaches the toggle ends in AttributeError before any write.
add_delivery_method(u, ids) ==
    /\ UNCHANGED elsewhere
    /\ /\ UNCHANGED db
       /\ IF check_permissions("add_delivery_method", u) # 0
          THEN Respond("add_delivery_method", u, 0, ids, {},
                       check_permissions("add_delivery_method", u), "")
          ELSE IF ~IdList_is_valid(ids)
          THEN Respond("add_delivery_method", u, 0, ids, {}, HTTP_400_BAD_REQUEST, "")
          ELSE IF u = Anonymous
          THEN Respond("add_delivery_method", u, 0, ids, {}, HTTP_500_INTERNAL_SERVER_ERROR, "")
          ELSE IF is_none(owner_restaurant(u))
          THEN Respond("add_delivery_method", u, 0, ids, {}, HTTP_404_NOT_FOUND,
                       "Restaurant not found.")
          ELSE Respond("add_delivery_method", u, owner_restaurant(u), ids, {},
                       HTTP_500_INTERNAL_SERVER_ERROR, "")

\* ---------------------------------------- assign_categories, step by step
\* An assign_categories request between its overlap check and its write.  The
\* handler takes no lock and opens no transaction around the two, so another
\* request's write can fall in between.  start holds the links the check saw;
\* rival_ids and rival_result hold the id list and the outcome of the first
\* request on the same restaurant that wrote in between, having started from
\* the same links ({} while there is none).
ToggleInFlight(u, r, ids) ==
    [request |-> "assign_categories", user |-> u, restaurant |-> r, ids |-> ids,
     overlap |-> categories_overlap(categories(r), ids), start |-> categories(r),
     rival_ids |-> {}, rival_result |-> {}]

\* RestaurantViewSet.assign_categories, lines 480-487: serializer, owner lookup
\* and categories.filter(id__in=ids).exists(), for a request that gets that far
assign_categories_check(u, ids) ==
    /\ u # Anonymous
    /\ check_permissions("assign_categories", u) = 0
    /\ IdList_is_valid(ids)
    /\ ~is_none(owner_restaurant(u))
    /\ Len(pending) < MaxPending
    /\ pending' = Append(pending, ToggleInFlight(u, owner_restaurant(u), ids))
    /\ UNCHANGED <<db, services, last>>

\* the links the i-th request in flight leaves: remove(*ids) when its check
\* saw an overlap, set(ids) when it saw none
toggle_write(i) ==
    IF pending[i].overlap
    THEN categories_remove(categories(pending[i].restaurant), pending[i].ids)
    ELSE categories_set(categories(pending[i].restaurant), pending[i].ids)

\* RestaurantViewSet.assign_categories, lines 487-489: the write and the
\* response of the i-th request in flight
assign_categories_write(i) ==
    /\ i \in DOMAIN pending
    /\ restaurant_category' = WithCategories(pending[i].restaurant, toggle_write(i))
    /\ pending' = [j \in 1..(Len(pending) - 1) |->
                     LET e == IF j < i THEN pending[j] ELSE pending[j + 1]
                     IN  IF /\ e.restaurant = pending[i].restaurant
                            /\ e.start = pending[i].start
                            /\ e.rival_ids = {}
                         THEN [e EXCEPT !.rival_ids = pending[i].ids,
                                        !.rival_result = toggle_write(i)]
                         ELSE e]
    /\ UNCHANGED <<users, restaurants, services>>
    /\ Respond("assign_categories", pending[i].user, pending[i].restaurant, pending[i].ids,
               pending[i].start, HTTP_200_OK,
               IF pending[i].overlap THEN "Categories unassigned." ELSE "Categories assigned.")

\* ------------------------------- category actions of the older apps/restaurant
\* Restaurant.objects.get(owner=user): DoesNotExist is caught (404),
\* MultipleObjectsReturned is not (500); otherwise 0 and the row is OwnedBy's one
get_by_owner_status(u) ==
    IF OwnedBy(u) = {} THEN HTTP_404_NOT_FOUND
    ELSE IF Cardinality(OwnedBy(u)) > 1 THEN HTTP_500_INTERNAL_SERVER_ERROR
    ELSE 0

\* apps/restaurant RestaurantViewSet.assign_categories: always categories.set(ids)
restaurant_assign_categories(u, ids) ==
    /\ UNCHANGED elsewhere
    /\ IF check_permissions("assign_categories", u) # 0
       THEN /\ UNCHANGED db
            /\ Respond("restaurant.assign_categories", u, 0, ids, {},
                       check_permissions("assign_categories", u), "")
       ELSE IF ids = {}
       THEN /\ UNCHANGED db
            /\ Respond("restaurant.assign_categories", u, 0, ids, {}, HTTP_400_BAD_REQUEST,
                       "Category IDs are required.")
       ELSE IF u = Anonymous
       THEN /\ UNCHANGED db
            /\ Respond("restaurant.assign_categories", u, 0, ids, {},
                       HTTP_500_INTERNAL_SERVER_ERROR, "")
       ELSE IF get_by_owner_status(u) # 0
       THEN /\ UNCHANGED db
            /\ Respond("restaurant.assign_categories", u, 0, ids, {}, get_by_owner_status(u), "")
       ELSE LET r == owner_restaurant(u)
            IN  /\ UNCHANGED <<users, restaurants>>
                /\ restaurant_category' = WithCategories(r, categories_set(categories(r), ids))
                /\ Respond("restaurant.assign_categories", u, r, ids, categories(r),
                           HTTP_200_OK, "Categories assigned successfully.")

\* apps/restaurant RestaurantViewSet.unassign_categories: categories.remove(*ids),
\* then save(update_fields=['categories']), which Model.save refuses for a
\* many-to-many field (ValueError) after the links are gone
restaurant_unassign_categories(u, ids) ==
    /\ UNCHANGED elsewhere
    /\ IF check_permissions("unassign_categories", u) # 0
       THEN /\ UNCHANGED db
            /\ Respond("restaurant.unassign_categories", u, 0, ids, {},
                       check_permissions("unassign_categories", u), "")
       ELSE IF ids = {}
       THEN /\ UNCHANGED db
            /\ Respond("restaurant.unassign_categories", u, 0, ids, {}, HTTP_400_BAD_REQUEST,
                       "Category IDs are required.")
       ELSE IF u = Anonymous
       THEN /\ UNCHANGED db
            /\ Respond("restaurant.unassign_categories", u, 0, ids, {},
                       HTTP_500_INTERNAL_SERVER_ERROR, "")
       ELSE IF get_by_owner_status(u) # 0
       THEN /\ UNCHANGED db
            /\ Respond("restaurant.unassign_categories", u, 0, ids, {},
                       get_by_owner_status(u), "")
       ELSE LET r == owner_restaurant(u)
            IN  /\ UNCHANGED <<users, restaurants>>
                /\ restaurant_category' = WithCategories(r, categories_remove(categories(r), ids))
                /\ Respond("restaurant.unassign_categories", u, r, ids, categories(r),
                           HTTP_500_INTERNAL_SERVER_ERROR, "")

\* ================================================================ apps/services
\* ------------------------------------------------------------------ tables
\* the slot of a row that was deleted (ids are not reused)
Gone == [gone |-> TRUE]

\* Post: restaurant FK, title; Comment: user FK, post FK, content;
\* UserLike: user FK, discount_post FK; UserSubscription: user FK, restaurant FK
Titles == {"t", "u"}
Contents == {"c", "d"}

\* get_object_or_404(Model, pk=pk) finds a row
RowExists(table, pk) == pk \in DOMAIN table /\ table[pk] # Gone

\* ids of the rows of a table that are there
Rows(table) == {i \in DOMAIN table : table[i] # Gone}

\* QuerySet.delete() / Model.delete() of the rows with ids in S
delete_rows(table, S) == [i \in DOMAIN table |-> IF i \in S THEN Gone ELSE table[i]]

\* primary keys a URL may name in a table of at most n rows
Pks(n) == 1..(n + 1)

\* HTTP methods
SAFE_METHODS == {"GET", "HEAD", "OPTIONS"}

\* ------------------------------------------------------------- permissions
\* PostViewSet.get_permissions: chosen by self.action alone; the
\* permission_classes given to @action (like, comments) are never read
PostViewSet_get_permissions(action) ==
    IF action \in {"list", "retrieve"} THEN <<"AllowAny">>
    ELSE IF action = "create" THEN <<"IsAuthenticated">>
    ELSE <<"IsAuthenticated", "IsOwnerOrReadOnly">>

\* CommentViewSet.get_permissions
CommentViewSet_get_permissions(action) ==
    IF action \in {"list", "retrieve"} THEN <<"AllowAny">>
    ELSE <<"IsAuthenticated", "IsOwnerOrReadOnly">>

\* UserSubscriptionViewSet.get_permissions
UserSubscriptionViewSet_get_permissions(action) ==
    IF action \in {"destroy"} THEN <<"IsAuthenticated", "IsSubscriptionOwner">>
    ELSE <<"IsAuthenticated">>

\* UserLikeViewSet.permission_classes
UserLikeViewSet_get_permissions(action) == <<"IsAuthenticated">>

\* APIView.check_permissions over a permission list: 0 when all grant, else
\* 401 (only IsAuthenticated can refuse, and it refuses requests without credentials)
check_permissions_of(perms, u) ==
    IF \A i \in DOMAIN perms : has_permission(perms[i], u) THEN 0 ELSE HTTP_401_UNAUTHORIZED

\* mutant: every authenticated user may write
IsOwnerOrReadOnly_any_user(method, u, kind, obj) ==
    IF method \in SAFE_METHODS THEN TRUE ELSE u # Anonymous

\* IsOwnerOrReadOnly.has_object_permission: kind is the class of obj.  A Post
\* row has no user_id, so the second comparison is None == user.id.
IsOwnerOrReadOnly_has_object_permission(method, u, kind, obj) ==
    IF method \in SAFE_METHODS THEN TRUE
    ELSE IF u = Anonymous THEN FALSE
    ELSE IF kind = "Post" THEN restaurants[obj.restaurant].owner = u
    ELSE FALSE

\* mutant: the owner comparison forgotten
IsSubscriptionOwner_any_user(u, obj) == u # Anonymous

\* IsSubscriptionOwner.has_object_permission
IsSubscriptionOwner_has_object_permission(u, obj) == u # Anonymous /\ obj.user = u

\* has_object_permission of one permission class
object_permission(perm, method, u, kind, obj) ==
    IF perm = "IsOwnerOrReadOnly" THEN IsOwnerOrReadOnly_has_object_permission(method, u, kind, obj)
    ELSE IF perm = "IsSubscriptionOwner" THEN IsSubscriptionOwner_has_object_permission(u, obj)
    ELSE TRUE

\* APIView.check_object_permissions: 0 when all grant, else permission_denied:
\* 403 for an authenticated request, 401 for one without credentials
check_object_permissions(perms, method, u, kind, obj) ==
    IF \A i \in DOMAIN perms : object_permission(perms[i], method, u, kind, obj) THEN 0
    ELSE IF u = Anonymous THEN HTTP_401_UNAUTHORIZED
    ELSE HTTP_403_FORBIDDEN

\* a response of apps/services: no id list, no links
Answer(action, u, pk, status, detail) == Respond(action, u, pk, {}, {}, status, detail)

\* -------------------------------------------------------------------- posts
\* Post.objects.create(restaurant=..., title=...): how fixtures and the admin
\* make posts
Post_objects_create(restaurant, title) ==
    /\ Len(posts) < MaxPosts
    /\ RestaurantExists(restaurant)
    /\ posts' = Append(posts, [restaurant |-> restaurant, title |-> title])
    /\ UNCHANGED <<outside_services, comments, likes, subscriptions>>
    /\ Answer("Post.objects.create", Anonymous, Len(posts) + 1, 0, "")

\* request bodies of the post endpoints: restaurant 0 stands for no restaurant key
PostPayloads == [restaurant : 0..(MaxRestaurants + 1), title : Titles \cup {Missing}]

\* PostCreateUpdateSerializer(post, data=request.data[, partial=True]).is_valid(
\* raise_exception=True), built without context: validate_restaurant reads
\* self.context['request'] and ends in KeyError (500) as soon as the payload
\* names a restaurant that exists; other failures are field errors (400)
PostCreateUpdateSerializer_is_valid(data, partial) ==
    IF data.restaurant # 0 /\ RestaurantExists(data.restaurant)
    THEN HTTP_500_INTERNAL_SERVER_ERROR
    ELSE IF data.restaurant # 0 THEN HTTP_400_BAD_REQUEST
    ELSE IF ~partial THEN HTTP_400_BAD_REQUEST
    ELSE 0

\* serializer.save() on an instance: the keys present overwrite the row
PostCreateUpdateSerializer_update(row, data) ==
    [row EXCEPT !.title = IF data.title # Missing THEN data.title ELSE @,
                !.restaurant = IF data.restaurant # 0 THEN data.restaurant ELSE @]

\* PostViewSet.list
posts_list(u) ==
    /\ UNCHANGED <<outside_services, services>>
    /\ IF check_permissions_of(PostViewSet_get_permissions("list"), u) # 0
       THEN Answer("posts.list", u, 0,
                   check_permissions_of(PostViewSet_get_permissions("list"), u), "")
       ELSE Answer("posts.list", u, 0, HTTP_200_OK, "")

\* PostViewSet.retrieve
posts_retrieve(u, pk) ==
    /\ UNCHANGED <<outside_services, services>>
    /\ IF check_permissions_of(PostViewSet_get_permissions("retrieve"), u) # 0
       THEN Answer("posts.retrieve", u, pk,
                   check_permissions_of(PostViewSet_get_permissions("retrieve"), u), "")
       ELSE IF ~RowExists(posts, pk)
       THEN Answer("posts.retrieve", u, pk, HTTP_404_NOT_FOUND, "")
       ELSE Answer("posts.retrieve", u, pk, HTTP_200_OK, "")

\* PostViewSet.create: serializer.save() comes before serializer.is_valid(),
\* which DRF refuses with AssertionError whatever the payload
posts_create(u, data) ==
    /\ UNCHANGED <<outside_services, services>>
    /\ IF check_permissions_of(PostViewSet_get_permissions("create"), u) # 0
       THEN Answer("posts.create", u, 0,
                   check_permissions_of(PostViewSet_get_permissions("create"), u), "")
       ELSE Answer("posts.create", u, 0, HTTP_500_INTERNAL_SERVER_ERROR, "")

\* PostViewSet.update (partial = FALSE, PUT) and PostViewSet.partial_update
\* (partial = TRUE, PATCH)
posts_write(action, method, partial, u, pk, data) ==
    /\ UNCHANGED <<outside_services, comments, likes, subscriptions>>
    /\ IF check_permissions_of(PostViewSet_get_permissions(action), u) # 0
       THEN /\ UNCHANGED posts
            /\ Answer("posts." \o action, u, pk,
                      check_permissions_of(PostViewSet_get_permissions(action), u), "")
       ELSE IF ~RowExists(posts, pk)
       THEN /\ UNCHANGED posts
            /\ Answer("posts." \o action, u, pk, HTTP_404_NOT_FOUND, "")
       ELSE IF check_object_permissions(PostViewSet_get_permissions(action), method, u,
                                        "Post", posts[pk]) # 0
       THEN /\ UNCHANGED posts
            /\ Answer("posts." \o action, u, pk,
                      check_object_permissions(PostViewSet_get_permissions(action), method, u,
                                               "Post", posts[pk]), "")
       ELSE IF PostCreateUpdateSerializer_is_valid(data, partial) # 0
       THEN /\ UNCHANGED posts
            /\ Answer("posts." \o action, u, pk,
                      PostCreateUpdateSerializer_is_valid(data, partial), "")
       ELSE /\ posts' = [posts EXCEPT ![pk] = PostCreateUpdateSerializer_update(@, data)]
            /\ Answer("posts." \o action, u, pk, HTTP_200_OK, "")

posts_update(u, pk, data) == posts_write("update", "PUT", FALSE, u, pk, data)

posts_partial_update(u, pk, data) == posts_write("partial_update", "PATCH", TRUE, u, pk, data)

\* on_delete=CASCADE from Comment.post and UserLike.discount_post
comments_of(pk) == {c \in Rows(comments) : comments[c].post = pk}
likes_of(pk) == {l \in Rows(likes) : likes[l].discount_post = pk}

\* PostViewSet.destroy
posts_destroy(u, pk) ==
    /\ UNCHANGED <<outside_services, subscriptions>>
    /\ IF check_permissions_of(PostViewSet_get_permissions("destroy"), u) # 0
       THEN /\ UNCHANGED <<posts, comments, likes>>
            /\ Answer("posts.destroy", u, pk,
                      check_permissions_of(PostViewSet_get_permissions("destroy"), u), "")
       ELSE IF ~RowExists(posts, pk)
       THEN /\ UNCHANGED <<posts, comments, likes>>
            /\ Answer("posts.destroy", u, pk, HTTP_404_NOT_FOUND, "")
       ELSE IF check_object_permissions(PostViewSet_get_permissions("destroy"), "DELETE", u,
                                        "Post", posts[pk]) # 0
       THEN /\ UNCHANGED <<posts, comments, likes>>
            /\ Answer("posts.destroy", u, pk,
                      check_object_permissions(PostViewSet_get_permissions("destroy"), "DELETE",
                                               u, "Post", posts[pk]), "")
       ELSE /\ posts' = delete_rows(posts, {pk})
            /\ comments' = delete_rows(comments, comments_of(pk))
            /\ likes' = delete_rows(likes, likes_of(pk))
            /\ Answer("posts.destroy", u, pk, HTTP_204_NO_CONTENT, "")

\* mutant: the user filter forgotten, UserLike.objects.filter(discount_post=post)
likes_by_anyone(u, pk) == {l \in Rows(likes) : likes[l].discount_post = pk}

\* UserLike.objects.filter(user=user, discount_post=post)
likes_by(u, pk) == {l \in Rows(likes) : likes[l].user = u /\ likes[l].discount_post = pk}

\* PostViewSet.like: POST is get_or_create, DELETE is filter(...).delete()
posts_like(method, u, pk) ==
    /\ UNCHANGED <<outside_services, posts, comments, subscriptions>>
    /\ IF check_permissions_of(PostViewSet_get_permissions("like"), u) # 0
       THEN /\ UNCHANGED likes
            /\ Answer("posts.like." \o method, u, pk,
                      check_permissions_of(PostViewSet_get_permissions("like"), u), "")
       ELSE IF ~RowExists(posts, pk)
       THEN /\ UNCHANGED likes
            /\ Answer("posts.like." \o method, u, pk, HTTP_404_NOT_FOUND, "")
       ELSE IF method = "POST"
       THEN IF likes_by(u, pk) = {}
            THEN /\ Len(likes) < MaxLikes
                 /\ likes' = Append(likes, [user |-> u, discount_post |-> pk])
                 /\ Answer("posts.like." \o method, u, pk, HTTP_201_CREATED, "")
            ELSE /\ UNCHANGED likes
                 /\ Answer("posts.like." \o method, u, pk, HTTP_400_BAD_REQUEST,
                           "Already liked.")
       ELSE IF likes_by(u, pk) # {}
            THEN /\ likes' = delete_rows(likes, likes_by(u, pk))
                 /\ Answer("posts.like." \o method, u, pk, HTTP_204_NO_CONTENT, "")
            ELSE /\ UNCHANGED likes
                 /\ Answer("posts.like." \o method, u, pk, HTTP_404_NOT_FOUND,
                           "Like not found.")

\* request bodies of the comment endpoints: content is required; post 0 stands
\* for no post key
CommentPayloads == [content : Contents \cup {Missing}, post : 0..(MaxPosts + 1)]

\* CommentSerializer(data=data).is_valid(): content required, post an existing pk
CommentSerializer_is_valid(data) ==
    data.content # Missing /\ RowExists(posts, data.post)

\* PostViewSet.comments: GET lists the comments of the post, POST adds one to
\* it (data["post"] = pk) in the name of request.user
posts_comments(method, u, pk, data) ==
    /\ UNCHANGED <<outside_services, posts, likes, subscriptions>>
    /\ IF check_permissions_of(PostViewSet_get_permissions("comments"), u) # 0
       THEN /\ UNCHANGED comments
            /\ Answer("posts.comments." \o method, u, pk,
                      check_permissions_of(PostViewSet_get_permissions("comments"), u), "")
       ELSE IF ~RowExists(posts, pk)
       THEN /\ UNCHANGED comments
            /\ Answer("posts.comments." \o method, u, pk, HTTP_404_NOT_FOUND, "")
       ELSE IF method = "GET"
       THEN /\ UNCHANGED comments
            /\ Answer("posts.comments." \o method, u, pk, HTTP_200_OK, "")
       ELSE IF u = Anonymous
       THEN /\ UNCHANGED comments
            /\ Answer("posts.comments." \o method, u, pk, HTTP_401_UNAUTHORIZED,
                      "Authentication required.")
       ELSE IF ~CommentSerializer_is_valid([data EXCEPT !.post = pk])
       THEN /\ UNCHANGED comments
            /\ Answer("posts.comments." \o method, u, pk, HTTP_400_BAD_REQUEST, "")
       ELSE /\ Len(comments) < MaxComments
            /\ comments' = Append(comments, [user |-> u, post |-> pk, content |-> data.content])
            /\ Answer("posts.comments." \o method, u, pk, HTTP_201_CREATED, "")

\* ----------------------------------------------------------------- comments
\* CommentViewSet.list
comments_list(u) ==
    /\ UNCHANGED <<outside_services, services>>
    /\ IF check_permissions_of(CommentViewSet_get_permissions("list"), u) # 0
       THEN Answer("comments.list", u, 0,
                   check_permissions_of(CommentViewSet_get_permissions("list"), u), "")
       ELSE Answer("comments.list", u, 0, HTTP_200_OK, "")

\* mutant: the comment fetched with filter(pk=pk).first() and serialized as it is
comments_retrieve_first(u, pk) ==
    /\ UNCHANGED <<outside_services, services>>
    /\ Answer("comments.retrieve", u, pk, HTTP_200_OK, "")

\* CommentViewSet.retrieve
comments_retrieve(u, pk) ==
    /\ UNCHANGED <<outside_services, services>>
    /\ IF check_permissions_of(CommentViewSet_get_permissions("retrieve"), u) # 0
       THEN Answer("comments.retrieve", u, pk,
                   check_permissions_of(CommentViewSet_get_permissions("retrieve"), u), "")
       ELSE IF ~RowExists(comments, pk)
       THEN Answer("comments.retrieve", u, pk, HTTP_404_NOT_FOUND, "")
       ELSE Answer("comments.retrieve", u, pk, HTTP_200_OK, "")

\* CommentViewSet.create: serializer.save(user=request.user)
comments_create(u, data) ==
    /\ UNCHANGED <<outside_services, posts, likes, subscriptions>>
    /\ IF check_permissions_of(CommentViewSet_get_permissions("create"), u) # 0
       THEN /\ UNCHANGED comments
            /\ Answer("comments.create", u, 0,
                      check_permissions_of(CommentViewSet_get_permissions("create"), u), "")
       ELSE IF ~CommentSerializer_is_valid(data)
       THEN /\ UNCHANGED comments
            /\ Answer("comments.create", u, 0, HTTP_400_BAD_REQUEST, "")
       ELSE /\ Len(comments) < MaxComments
            /\ comments' = Append(comments,
                                  [user |-> u, post |-> data.post, content |-> data.content])
            /\ Answer("comments.create", u, Len(comments) + 1, HTTP_201_CREATED, "")

\* CommentViewSet.update
comments_update(u, pk, data) ==
    /\ UNCHANGED <<outside_services, posts, likes, subscriptions>>
    /\ IF check_permissions_of(CommentViewSet_get_permissions("update"), u) # 0
       THEN /\ UNCHANGED comments
            /\ Answer("comments.update", u, pk,
                      check_permissions_of(CommentViewSet_get_permissions("update"), u), "")
       ELSE IF ~RowExists(comments, pk)
       THEN /\ UNCHANGED comments
            /\ Answer("comments.update", u, pk, HTTP_404_NOT_FOUND, "")
       ELSE IF check_object_permissions(CommentViewSet_get_permissions("update"), "PUT", u,
                                        "Comment", comments[pk]) # 0
       THEN /\ UNCHANGED comments
            /\ Answer("comments.update", u, pk,
                      check_object_permissions(CommentViewSet_get_permissions("update"), "PUT",
                                               u, "Comment", comments[pk]), "")
       ELSE IF ~CommentSerializer_is_valid(data)
       THEN /\ UNCHANGED comments
            /\ Answer("comments.update", u, pk, HTTP_400_BAD_REQUEST, "")
       ELSE /\ comments' = [comments EXCEPT ![pk].content = data.content,
                                            ![pk].post = data.post]
            /\ Answer("comments.update", u, pk, HTTP_200_OK, "")

\* CommentViewSet.destroy
comments_destroy(u, pk) ==
    /\ UNCHANGED <<outside_services, posts, likes, subscriptions>>
    /\ IF check_permissions_of(CommentViewSet_get_permissions("destroy"), u) # 0
       THEN /\ UNCHANGED comments
            /\ Answer("comments.destroy", u, pk,
                      check_permissions_of(CommentViewSet_get_permissions("destroy"), u), "")
       ELSE IF ~RowExists(comments, pk)
       THEN /\ UNCHANGED comments
            /\ Answer("comments.destroy", u, pk, HTTP_404_NOT_FOUND, "")
       ELSE IF check_object_permissions(CommentViewSet_get_permissions("destroy"), "DELETE", u,
                                        "Comment", comments[pk]) # 0
       THEN /\ UNCHANGED comments
            /\ Answer("comments.destroy", u, pk,
                      check_object_permissions(CommentViewSet_get_permissions("destroy"),
                                               "DELETE", u, "Comment", comments[pk]), "")
       ELSE /\ comments' = delete_rows(comments, {pk})
            /\ Answer("comments.destroy", u, pk, HTTP_204_NO_CONTENT, "")

\* ------------------------------------------------------------ subscriptions
\* UserSubscriptionViewSet.get_queryset: the rows of ?user=<id> when the
\* parameter is given (user_param # 0), the caller's rows otherwise
subscriptions_queryset(u, user_param) ==
    {i \in Rows(subscriptions) :
        subscriptions[i].user = IF user_param # 0 THEN user_param ELSE u}

\* UserSubscriptionViewSet.list; the response records the ids of the rows returned
subscriptions_list(u, user_param) ==
    /\ UNCHANGED <<outside_services, services>>
    /\ IF check_permissions_of(UserSubscriptionViewSet_get_permissions("list"), u) # 0
       THEN Answer("subscriptions.list", u, 0,
                   check_permissions_of(UserSubscriptionViewSet_get_permissions("list"), u), "")
       ELSE Respond("subscriptions.list", u, 0, subscriptions_queryset(u, user_param), {},
                    HTTP_200_OK, "")

\* UserSubscriptionViewSet.retrieve
subscriptions_retrieve(u, pk, user_param) ==
    /\ UNCHANGED <<outside_services, services>>
    /\ IF check_permissions_of(UserSubscriptionViewSet_get_permissions("retrieve"), u) # 0
       THEN Answer("subscriptions.retrieve", u, pk,
                   check_permissions_of(UserSubscriptionViewSet_get_permissions("retrieve"), u),
                   "")
       ELSE IF pk \notin subscriptions_queryset(u, user_param)
       THEN Answer("subscriptions.retrieve", u, pk, HTTP_404_NOT_FOUND, "")
       ELSE Answer("subscriptions.retrieve", u, pk, HTTP_200_OK, "")

\* UserSubscriptionViewSet.create: restaurant must be an existing pk; user is
\* read-only in the serializer, so the (user, restaurant) uniqueness is left to
\* the database (IntegrityError, 500)
subscriptions_create(u, restaurant) ==
    /\ UNCHANGED <<outside_services, posts, comments, likes>>
    /\ IF check_permissions_of(UserSubscriptionViewSet_get_permissions("create"), u) # 0
       THEN /\ UNCHANGED subscriptions
            /\ Answer("subscriptions.create", u, 0,
                      check_permissions_of(UserSubscriptionViewSet_get_permissions("create"), u),
                      "")
       ELSE IF ~RestaurantExists(restaurant)
       THEN /\ UNCHANGED subscriptions
            /\ Answer("subscriptions.create", u, 0, HTTP_400_BAD_REQUEST, "")
       ELSE IF \E i \in Rows(subscriptions) :
                  subscriptions[i] = [user |-> u, restaurant |-> restaurant]
       THEN /\ UNCHANGED subscriptions
            /\ Answer("subscriptions.create", u, 0, HTTP_500_INTERNAL_SERVER_ERROR, "")
       ELSE /\ Len(subscriptions) < MaxSubscriptions
            /\ subscriptions' = Append(subscriptions, [user |-> u, restaurant |-> restaurant])
            /\ Answer("subscriptions.create", u, Len(subscriptions) + 1, HTTP_201_CREATED, "")

\* UserSubscriptionViewSet.destroy
subscriptions_destroy(u, pk) ==
    /\ UNCHANGED <<outside_services, posts, comments, likes>>
    /\ IF check_permissions_of(UserSubscriptionViewSet_get_permissions("destroy"), u) # 0
       THEN /\ UNCHANGED subscriptions
            /\ Answer("subscriptions.destroy", u, pk,
                      check_permissions_of(UserSubscriptionViewSet_get_permissions("destroy"), u),
                      "")
       ELSE IF ~RowExists(subscriptions, pk)
       THEN /\ UNCHANGED subscriptions
            /\ Answer("subscriptions.destroy", u, pk, HTTP_404_NOT_FOUND, "")
       ELSE IF check_object_permissions(UserSubscriptionViewSet_get_permissions("destroy"),
                                        "DELETE", u, "UserSubscription", subscriptions[pk]) # 0
       THEN /\ UNCHANGED subscriptions
            /\ Answer("subscriptions.destroy", u, pk,
                      check_object_permissions(UserSubscriptionViewSet_get_permissions("destroy"),
                                               "DELETE", u, "UserSubscription",
                                               subscriptions[pk]), "")
       ELSE /\ subscriptions' = delete_rows(subscriptions, {pk})
            /\ Answer("subscriptions.destroy", u, pk, HTTP_204_NO_CONTENT, "")

\* -------------------------------------------------------------------- likes
\* UserLikeViewSet.create: discount_post must be an existing pk; user is
\* read-only in the serializer, so the (user, discount_post) uniqueness is left
\* to the database (IntegrityError, 500)
likes_create(u, discount_post) ==
    /\ UNCHANGED <<outside_services, posts, comments, subscriptions>>
    /\ IF check_permissions_of(UserLikeViewSet_get_permissions("create"), u) # 0
       THEN /\ UNCHANGED likes
            /\ Answer("likes.create", u, 0,
                      check_permissions_of(UserLikeViewSet_get_permissions("create"), u), "")
       ELSE IF ~RowExists(posts, discount_post)
       THEN /\ UNCHANGED likes
            /\ Answer("likes.create", u, 0, HTTP_400_BAD_REQUEST, "")
       ELSE IF \E i \in Rows(likes) : likes[i] = [user |-> u, discount_post |-> discount_post]
       THEN /\ UNCHANGED likes
            /\ Answer("likes.create", u, 0, HTTP_500_INTERNAL_SERVER_ERROR, "")
       ELSE /\ Len(likes) < MaxLikes
            /\ likes' = Append(likes, [user |-> u, discount_post |-> discount_post])
            /\ Answer("likes.create", u, Len(likes) + 1, HTTP_201_CREATED, "")

\* UserLikeViewSet.destroy: get_object_or_404(UserLike, pk=pk, user=request.user)
likes_destroy(u, pk) ==
    /\ UNCHANGED <<outside_services, posts, comments, subscriptions>>
    /\ IF check_permissions_of(UserLikeViewSet_get_permissions("destroy"), u) # 0
       THEN /\ UNCHANGED likes
            /\ Answer("likes.destroy", u, pk,
                      check_permissions_of(UserLikeViewSet_get_permissions("destroy"), u), "")
       ELSE IF ~(RowExists(likes, pk) /\ likes[pk].user = u)
       THEN /\ UNCHANGED likes
            /\ Answer("likes.destroy", u, pk, HTTP_404_NOT_FOUND, "")
       ELSE /\ likes' = delete_rows(likes, {pk})
            /\ Answer("likes.destroy", u, pk, HTTP_204_NO_CONTENT, "")

\* ------------------------------------------------------- users/{id} (retrieve)
\* UserViewSet.retrieve: CustomUser.objects.filter(pk=pk).first(); a missing
\* user is answered 400 "User not found."
users_retrieve(u, pk) ==
    /\ UNCHANGED <<db, pending, services>>
    /\ IF pk \notin DOMAIN users
       THEN Answer("users.retrieve", u, pk, HTTP_400_BAD_REQUEST, "User not found.")
       ELSE Answer("users.retrieve", u, pk, HTTP_200_OK, "")

\* ------------------------------------------------------------ specifications
\* Requests about users and restaurant rows; set_image and the category and
\* delivery actions appear as the requests that cannot reach a row (no credentials).
Next ==
    \/ \E role \in ROLE_CHOICES : create_user(role, fixture_email, fixture_password)
    \/ \E data \in RegisterPayloads :
          data.email = fixture_email /\ data.password = fixture_password /\ register(data)
    \/ \E u \in Callers, data \in AddPayloads : add(u, data)
    \/ \E u \in Callers, pk \in PkIds : retrieve(u, pk)
    \/ \E u \in Callers, pk \in PkIds : destroy(u, pk)
    \/ \E u \in Callers, pk \in PkIds, data \in PatchPayloads : partial_update(u, pk, data)
    \/ \E image_url \in ImagePayloads : set_image(Anonymous, image_url)
    \/ \E ids \in IdPayloads : assign_categories(Anonymous, ids)
    \/ \E ids \in DeliveryPayloads : add_delivery_method(Anonymous, ids)
    \/ \E ids \in IdPayloads : restaurant_assign_categories(Anonymous, ids)
    \/ \E ids \in IdPayloads : restaurant_unassign_categories(Anonymous, ids)

Spec == Init /\ [][Next]_vars

\* Requests about the join table: the category and delivery actions by every
\* caller, over restaurants made by add (by users who start as customers) and
\* moved by destroy and by a PATCH of owner or deleted_at.  The handlers of
\* these actions read neither a role nor a name.
NextCategories ==
    \/ create_user(CUSTOMER, fixture_email, fixture_password)
    \/ \E u \in Callers, data \in AddPayloads : data.name # "b" /\ data.owner = 0 /\ add(u, data)
    \/ \E u \in Callers, pk \in PkIds : destroy(u, pk)
    \/ \E u \in Callers, pk \in PkIds, data \in PatchPayloads :
          data.name = Missing /\ partial_update(u, pk, data)
    \/ \E u \in Callers, ids \in IdPayloads : assign_categories(u, ids)
    \/ \E u \in Callers, ids \in DeliveryPayloads : add_delivery_method(u, ids)
    \/ \E u \in Callers, ids \in IdPayloads : restaurant_assign_categories(u, ids)
    \/ \E u \in Callers, ids \in IdPayloads : restaurant_unassign_categories(u, ids)

SpecCategories == Init /\ [][NextCategories]_vars

\* Requests whose body a serializer may refuse, by every caller: add, PATCH of
\* name or address_link, set_image and assign_categories (one category).
NextValidation ==
    \/ \E role \in ROLE_CHOICES : create_user(role, fixture_email, fixture_password)
    \/ \E u \in Callers, data \in AddPayloads : data.name # "b" /\ data.owner = 0 /\ add(u, data)
    \/ \E u \in Callers, pk \in PkIds, data \in PatchPayloads :
          data.owner = 0 /\ data.deleted_at = Missing /\ partial_update(u, pk, data)
    \/ \E u \in Callers, image_url \in ImagePayloads : set_image(u, image_url)
    \/ \E u \in Callers, ids \in {{}, {1}} : assign_categories(u, ids)

SpecValidation == Init /\ [][NextValidation]_vars

\* The user endpoints: register requests that may overlap one another (is_valid
\* and save are separate steps) and login, over users the fixtures made.
NextUsers ==
    \/ \E email \in Emails, password \in Passwords : create_user(CUSTOMER, email, password)
    \/ \E data \in RegisterPayloads : data.password = fixture_password /\ register_is_valid(data)
    \/ \E i \in 1..MaxPending : register_save(i)
    \/ \E data \in LoginPayloads : login(data)

SpecUsers == Init /\ [][NextUsers]_vars

\* Comments and the reading of posts, by every caller: posts made by fixtures
\* on the one restaurant there is, comments made through both comment
\* endpoints, read, rewritten and deleted.
NextComments ==
    \/ create_user(CUSTOMER, fixture_email, fixture_password)
    \/ \E u \in DOMAIN users, data \in AddPayloads :
          restaurants = <<>> /\ data.name = "a" /\ data.address_link = "ok" /\ data.owner = 0
          /\ add(u, data)
    \/ \E restaurant \in DOMAIN restaurants : Post_objects_create(restaurant, "t")
    \/ \E u \in Callers : posts_list(u)
    \/ \E u \in Callers, pk \in Pks(MaxPosts) : posts_retrieve(u, pk)
    \/ \E method \in {"GET", "POST"}, u \in Callers, pk \in Pks(MaxPosts),
          data \in CommentPayloads :
          data.post = 0 /\ data.content # "d" /\ posts_comments(method, u, pk, data)
    \/ \E u \in Callers : comments_list(u)
    \/ \E u \in Callers, pk \in Pks(MaxComments) : comments_retrieve(u, pk)
    \/ \E u \in Callers, data \in CommentPayloads :
          data.content # "d" /\ comments_create(u, data)
    \/ \E u \in Callers, pk \in Pks(MaxComments), data \in CommentPayloads :
          data.content = "d" /\ comments_update(u, pk, data)
    \/ \E u \in Callers, pk \in Pks(MaxComments) : comments_destroy(u, pk)

SpecComments == Init /\ [][NextComments]_vars

\* Posts written by every caller: restaurants of both users, posts made by
\* fixtures with the title "t", then read, rewritten and deleted.
NextPosts ==
    \/ create_user(CUSTOMER, fixture_email, fixture_password)
    \/ \E u \in DOMAIN users, data \in AddPayloads :
          data.name = "a" /\ data.address_link = "ok" /\ data.owner = 0
          /\ add(u, data)
    \/ \E restaurant \in DOMAIN restaurants : Post_objects_create(restaurant, "t")
    \/ \E u \in Callers, pk \in Pks(MaxPosts) : posts_retrieve(u, pk)
    \/ \E u \in Callers, data \in PostPayloads : data.title = "u" /\ posts_create(u, data)
    \/ \E u \in Callers, pk \in Pks(MaxPosts), data \in PostPayloads :
          data.title # "t" /\ posts_update(u, pk, data)
    \/ \E u \in Callers, pk \in Pks(MaxPosts), data \in PostPayloads :
          data.title # "t" /\ posts_partial_update(u, pk, data)
    \/ \E u \in Callers, pk \in Pks(MaxPosts) : posts_destroy(u, pk)

SpecPosts == Init /\ [][NextPosts]_vars

\* Subscriptions of both users to the restaurants there are, read and deleted
\* by every caller.
NextSubscriptions ==
    \/ create_user(CUSTOMER, fixture_email, fixture_password)
    \/ \E u \in DOMAIN users, data \in AddPayloads :
          data.name = "a" /\ data.address_link = "ok" /\ data.owner = 0
          /\ add(u, data)
    \/ \E u \in Callers, restaurant \in Pks(MaxRestaurants) : subscriptions_create(u, restaurant)
    \/ \E u \in Callers, user_param \in {0} \cup UserIds : subscriptions_list(u, user_param)
    \/ \E u \in Callers, pk \in Pks(MaxSubscriptions), user_param \in {0} \cup DOMAIN users :
          subscriptions_retrieve(u, pk, user_param)
    \/ \E u \in Callers, pk \in Pks(MaxSubscriptions) : subscriptions_destroy(u, pk)

SpecSubscriptions == Init /\ [][NextSubscriptions]_vars

\* Requests that name a row by id, in every app.  One row per table is enough
\* to tell an id that names a row from an id that names none (never given, or
\* given to a row since deleted): each table gets its row once, by a fixture or
\* by the creating endpoint, and every caller looks up, rewrites and deletes
\* under ids of both kinds.  The rewriting payloads change no field.
NextLookups ==
    \/ create_user(CUSTOMER, fixture_email, fixture_password)
    \/ \E u \in DOMAIN users, data \in AddPayloads :
          restaurants = <<>> /\ data.name = "a" /\ data.address_link = "ok" /\ data.owner = 0
          /\ add(u, data)
    \/ \E u \in Callers, pk \in PkIds : retrieve(u, pk)
    \/ \E u \in Callers, pk \in PkIds : destroy(u, pk)
    \/ \E u \in Callers, pk \in PkIds, data \in PatchPayloads :
          /\ data.name = Missing /\ data.owner = 0 /\ data.deleted_at = Missing
          /\ data.address_link = Missing
          /\ partial_update(u, pk, data)
    \/ \E u \in Callers, pk \in Pks(MaxUsers) : users_retrieve(u, pk)
    \/ \E restaurant \in DOMAIN restaurants : posts = <<>> /\ Post_objects_create(restaurant, "t")
    \/ \E u \in Callers, pk \in Pks(MaxPosts) : posts_retrieve(u, pk)
    \/ \E u \in Callers, pk \in Pks(MaxPosts), data \in PostPayloads :
          data.restaurant = 0 /\ data.title = "u" /\ posts_update(u, pk, data)
    \/ \E u \in Callers, pk \in Pks(MaxPosts), data \in PostPayloads :
          data.restaurant = 0 /\ data.title = Missing /\ posts_partial_update(u, pk, data)
    \/ \E u \in Callers, pk \in Pks(MaxPosts) : posts_destroy(u, pk)
    \/ \E u \in Callers, pk \in Pks(MaxPosts) : likes = <<>> /\ posts_like("POST", u, pk)
    \/ \E u \in Callers, pk \in Pks(MaxPosts) : posts_like("DELETE", u, pk)
    \/ \E u \in Callers, pk \in Pks(MaxPosts), data \in CommentPayloads :
          data.post = 0 /\ data.content = "c" /\ posts_comments("GET", u, pk, data)
    \/ \E u \in Callers, pk \in Pks(MaxPosts), data \in CommentPayloads :
          /\ comments = <<>> /\ data.post = 0 /\ data.content = "c"
          /\ posts_comments("POST", u, pk, data)
    \/ \E u \in Callers, pk \in Pks(MaxComments) : comments_retrieve(u, pk)
    \/ \E u \in Callers, pk \in Pks(MaxComments), data \in CommentPayloads :
          data.post = 1 /\ data.content = "c" /\ comments_update(u, pk, data)
    \/ \E u \in Callers, pk \in Pks(MaxComments) : comments_destroy(u, pk)
    \/ \E u \in Callers, restaurant \in DOMAIN restaurants :
          subscriptions = <<>> /\ subscriptions_create(u, restaurant)
    \/ \E u \in Callers, pk \in Pks(MaxSubscriptions) : subscriptions_retrieve(u, pk, 0)
    \/ \E u \in Callers, pk \in Pks(MaxSubscriptions) : subscriptions_destroy(u, pk)
    \/ \E u \in Callers, pk \in Pks(MaxLikes) : likes_destroy(u, pk)

SpecLookups == Init /\ [][NextLookups]_vars

\* Likes of both users on the posts of the one restaurant there is, given and
\* taken back through posts/{pk}/like and through the likes endpoints, with
\* posts deleted under them.
NextLikes ==
    \/ create_user(CUSTOMER, fixture_email, fixture_password)
    \/ \E u \in DOMAIN users, data \in AddPayloads :
          restaurants = <<>> /\ data.name = "a" /\ data.address_link = "ok" /\ data.owner = 0
          /\ add(u, data)
    \/ \E restaurant \in DOMAIN restaurants : Post_objects_create(restaurant, "t")
    \/ \E method \in {"POST", "DELETE"}, u \in Callers, pk \in Pks(MaxPosts) :
          posts_like(method, u, pk)
    \/ \E u \in Callers, discount_post \in Pks(MaxPosts) : likes_create(u, discount_post)
    \/ \E u \in Callers, pk \in Pks(MaxLikes) : likes_destroy(u, pk)
    \/ \E u \in Callers, pk \in Pks(MaxPosts) : posts_destroy(u, pk)

SpecLikes == Init /\ [][NextLikes]_vars

\* add requests of both users, each as the two writes it makes, with reads of
\* the rows in between.
NextAdd ==
    \/ create_user(CUSTOMER, fixture_email, fixture_password)
    \/ \E u \in Callers, data \in AddPayloads : data.owner = 0 /\ add_role_write(u, data)
    \/ \E i \in 1..MaxPending : add_save(i)
    \/ \E u \in Callers, pk \in PkIds : retrieve(u, pk)
    \/ \E u \in Callers, pk \in Pks(MaxUsers) : users_retrieve(u, pk)

SpecAdd == Init /\ [][NextAdd]_vars

\* assign_categories requests on the one restaurant there is, each as its check
\* and its write, so that the steps of two requests interleave.
NextToggle ==
    \/ create_user(CUSTOMER, fixture_email, fixture_password)
    \/ \E u \in DOMAIN users, data \in AddPayloads :
          restaurants = <<>> /\ data.name = "a" /\ data.address_link = "ok" /\ data.owner = 0
          /\ add(u, data)
    \/ \E u \in Callers, ids \in IdPayloads : assign_categories_check(u, ids)
    \/ \E i \in 1..MaxPending : assign_categories_write(i)

SpecToggle == Init /\ [][NextToggle]_vars

\* ===================================================================== claims
DetailActions == {"retrieve", "partial_update", "destroy"}
OwnerScopedActions ==
    DetailActions \cup {"add", "set_image", "assign_categories", "add_delivery_method",
                        "restaurant.assign_categories", "restaurant.unassign_categories"}
LinkActions ==
    {"assign_categories", "add_delivery_method",
     "restaurant.assign_categories", "restaurant.unassign_categories"}

\* C1: a retrieve, partial_update or destroy of restaurant R by an authenticated
\* user who is not R's owner is answered 403 and leaves R and its category
\* links unchanged.
C1_NonOwnerDenied ==
    [][(/\ last'.action \in DetailActions
        /\ last'.user # Anonymous
        /\ RestaurantExists(last'.pk)
        /\ ~has_object_permission(last'.user, last'.pk))
       => (/\ last'.status = HTTP_403_FORBIDDEN
           /\ restaurants' = restaurants
           /\ restaurant_category' = restaurant_category)]_vars

\* C2: a request without authentication to an owner-scoped restaurant action
\* is answered 401 and changes no stored state.
C2_UnauthenticatedGets401 ==
    [][(last'.user = Anonymous /\ last'.action \in OwnerScopedActions)
       => (last'.status = HTTP_401_UNAUTHORIZED /\ UNCHANGED db)]_vars

\* C3: for an authenticated user, retrieve, partial_update or destroy of an id
\* with no restaurant yields 404 and no state change, and of an existing
\* restaurant owned by someone else yields 403.
C3_DenialDistinctFromAbsence ==
    [][(last'.action \in DetailActions /\ last'.user # Anonymous)
       => IF ~RestaurantExists(last'.pk)
          THEN last'.status = HTTP_404_NOT_FOUND /\ UNCHANGED db
          ELSE (restaurants[last'.pk].owner # last'.user
                => last'.status = HTTP_403_FORBIDDEN)]_vars

\* C4: when an authenticated user whose role is not owner gets 201 from add,
\* that user's role is owner afterwards and the new restaurant exists with
\* that user as owner.
C4_AddPromotes ==
    [][(/\ last'.action = "add"
        /\ last'.status = HTTP_201_CREATED
        /\ last'.user # Anonymous
        /\ users[last'.user].role # OWNER)
       => (/\ users'[last'.user].role = OWNER
           /\ last'.pk \notin DOMAIN restaurants
           /\ last'.pk \in DOMAIN restaurants'
           /\ restaurants'[last'.pk].owner = last'.user)]_vars

\* the first restaurant of the database was just created by a user whom that
\* request promoted
C4_Witness ==
    /\ last.action = "add"
    /\ last.status = HTTP_201_CREATED
    /\ Len(restaurants) = 1
    /\ restaurants[1].owner = last.user
    /\ users[last.user].role = OWNER
    /\ users[last.user].role_writes = 1

\* C5: once a user's role is owner it is owner in every later state.
C5_RoleNeverLeavesOwner ==
    [][\A u \in DOMAIN users : users[u].role = OWNER => users'[u].role = OWNER]_vars

\* a promoted owner has just deleted the last of their restaurants
C5_Witness ==
    /\ last.action = "destroy"
    /\ last.status = HTTP_204_NO_CONTENT
    /\ last.user # Anonymous
    /\ users[last.user].role = OWNER
    /\ users[last.user].role_writes = 1
    /\ OwnedBy(last.user) # {}
    /\ \A r \in OwnedBy(last.user) : restaurants[r].deleted_at = SET

\* C6: an add by a user who is already owner leaves the user record unchanged;
\* a user's role is written at most once, by the successful add of a user who
\* was not owner.
C6_PromotionIdempotent ==
    /\ [][/\ (/\ last'.action = "add"
              /\ last'.user # Anonymous
              /\ users[last'.user].role = OWNER) => users' = users
          /\ \A u \in DOMAIN users :
                users'[u].role_writes # users[u].role_writes
                => /\ last'.action = "add"
                   /\ last'.status = HTTP_201_CREATED
                   /\ last'.user = u
                   /\ users[u].role # OWNER]_vars
    /\ [](\A u \in DOMAIN users : users[u].role_writes <= 1)

\* a user made with role owner has created a restaurant and was never written
C6_Witness ==
    /\ last.action = "add"
    /\ last.status = HTTP_201_CREATED
    /\ users[last.user].role = OWNER
    /\ users[last.user].role_writes = 0

\* C7: assign_categories by an owner with a non-empty S none of which is linked
\* to their restaurant leaves that restaurant's category set equal to S.
C7_AssignReplaces ==
    [][(/\ last'.action = "assign_categories"
        /\ last'.user # Anonymous
        /\ last'.ids # {}
        /\ OwnedBy(last'.user) # {}
        /\ categories(Min(OwnedBy(last'.user))) \cap last'.ids = {})
       => (/\ last'.status = HTTP_200_OK
           /\ categories_in(restaurant_category', Min(OwnedBy(last'.user))) = last'.ids)]_vars

\* links that did not overlap S were replaced by S
C7_Witness ==
    /\ last.action = "assign_categories"
    /\ last.status = HTTP_200_OK
    /\ last.detail = "Categories assigned."
    /\ last.before # {}
    /\ last.before \cap last.ids = {}
    /\ categories(last.pk) = last.ids

\* C8: assign_categories by an owner with S of which at least one element is
\* linked is an unassign: the category set afterwards is the previous set
\* minus S, so no element of S is linked afterwards.
C8_OverlapUnassigns ==
    [][(/\ last'.action = "assign_categories"
        /\ last'.user # Anonymous
        /\ OwnedBy(last'.user) # {}
        /\ categories(Min(OwnedBy(last'.user))) \cap last'.ids # {})
       => (/\ last'.status = HTTP_200_OK
           /\ categories_in(restaurant_category', Min(OwnedBy(last'.user)))
                = categories(Min(OwnedBy(last'.user))) \ last'.ids
           /\ categories_in(restaurant_category', Min(OwnedBy(last'.user)))
                \cap last'.ids = {})]_vars

\* S had a linked and an unlinked element, and the unlinked one stayed unlinked
C8_Witness ==
    /\ last.action = "assign_categories"
    /\ last.status = HTTP_200_OK
    /\ last.detail = "Categories unassigned."
    /\ last.ids \cap last.before # {}
    /\ last.ids \ last.before # {}
    /\ categories(last.pk) \cap last.ids = {}

\* C9: a category or delivery request by user U leaves the category links of
\* every restaurant owned by another user as they were.
C9_Isolation ==
    [][last'.action \in LinkActions
       => \A r \in DOMAIN restaurants :
             restaurants[r].owner # last'.user
             => categories_in(restaurant_category', r) = categories(r)]_vars

\* a request changed the links of the caller's restaurant while another
\* owner's restaurant has links of its own
C9_Witness ==
    /\ last.action \in LinkActions
    /\ last.pk # 0
    /\ restaurants[last.pk].owner = last.user
    /\ categories(last.pk) # last.before
    /\ \E r \in DOMAIN restaurants :
          /\ restaurants[r].owner # last.user
          /\ categories(r) # {}

\* C10: assign_categories or the delivery toggle by an authenticated user who
\* owns no restaurant, with a non-empty ID list, is answered 404 and changes
\* no link.
C10_NoRestaurant404 ==
    [][(/\ last'.action \in {"assign_categories", "add_delivery_method"}
        /\ last'.user # Anonymous
        /\ last'.ids # {}
        /\ \A r \in DOMAIN restaurants : restaurants[r].owner # last'.user)
       => (/\ last'.status = HTTP_404_NOT_FOUND
           /\ restaurant_category' = restaurant_category)]_vars

\* the caller owns nothing, got 404, and the links of others are still there
C10_Witness ==
    /\ last.action \in {"assign_categories", "add_delivery_method"}
    /\ last.status = HTTP_404_NOT_FOUND
    /\ last.user # Anonymous
    /\ last.ids # {}
    /\ \A r \in DOMAIN restaurants : restaurants[r].owner # last.user
    /\ restaurant_category # {}

\* C11: after the owner's DELETE of restaurant R is answered 204, a lookup of R
\* by id finds no restaurant.
C11_DeletedIsGone ==
    [][(/\ last'.action = "destroy"
        /\ last'.status = HTTP_204_NO_CONTENT
        /\ RestaurantExists(last'.pk)
        /\ restaurants[last'.pk].owner = last'.user)
       => last'.pk \notin DOMAIN restaurants']_vars

\* C12: a request whose body fails validation is answered 400 and changes
\* nothing: an add with a missing name or a malformed address_link creates no
\* restaurant and leaves the caller's role; a partial_update with a malformed
\* field (by a caller the request admits, on a restaurant that exists) leaves
\* the restaurant unchanged; an assign_categories with an empty list or a
\* set_image with a missing or malformed URL changes no link and no image.
C12_InvalidChangesNothing ==
    [][/\ last'.action = "add"
          => \A data \in AddPayloads :
                ((data.name = Missing \/ data.address_link = "bad")
                    /\ add(last'.user, data))
                => (last'.status = HTTP_400_BAD_REQUEST /\ UNCHANGED db)
       /\ last'.action = "partial_update"
          => \A data \in PatchPayloads :
                (data.address_link = "bad" /\ partial_update(last'.user, last'.pk, data))
                => /\ UNCHANGED db
                   /\ (last'.user # Anonymous /\ RestaurantExists(last'.pk))
                      => last'.status = HTTP_400_BAD_REQUEST
       /\ (last'.action = "assign_categories" /\ assign_categories(last'.user, {}))
          => (last'.status = HTTP_400_BAD_REQUEST /\ UNCHANGED db)
       /\ (last'.action = "set_image" /\ set_image(last'.user, "bad"))
          => (last'.status = HTTP_400_BAD_REQUEST /\ UNCHANGED db)]_vars

\* a PATCH was refused with 400 on a restaurant that has an image and a category
\* link, while a user who never got a restaurant through is still a customer
C12_Witness ==
    /\ last.action = "partial_update"
    /\ last.status = HTTP_400_BAD_REQUEST
    /\ RestaurantExists(last.pk)
    /\ restaurants[last.pk].image_url # NULL
    /\ categories(last.pk) # {}
    /\ \E u \in DOMAIN users : users[u].role = CUSTOMER /\ OwnedBy(u) = {}

\* C13: in every reachable state every stored user has role customer or
\* role owner.
C13_RoleInChoices ==
    \A u \in DOMAIN users : users[u].role \in ROLE_CHOICES

\* C14: no two stored users ever share an email, whatever the order and the
\* overlap of register requests; and a register request whose email is taken
\* when it is answered is answered 400 and leaves the users as they were.
C14_UniqueEmails ==
    /\ [](\A u, v \in DOMAIN users : users[u].email = users[v].email => u = v)
    /\ [][/\ \A data \in RegisterPayloads :
                (/\ register_is_valid(data)
                 /\ pending' = pending
                 /\ normalize_email(data.email) \in emails_of(users))
                => (last'.status = HTTP_400_BAD_REQUEST /\ users' = users)
          /\ \A i \in DOMAIN pending :
                (/\ register_save(i)
                 /\ normalize_email(pending[i].email) \in emails_of(users))
                => (last'.status = HTTP_400_BAD_REQUEST /\ users' = users)]_vars

\* a login that names no stored user, or a stored user with another password
login_is_bad(data) ==
    \/ get_by_email(data.email) = 0
    \/ ~check_password(users[get_by_email(data.email)], data.password)

\* C15: a login with an unknown email and a login with a known email and a
\* wrong password are both answered 400 and get no token, and for the same
\* submitted password the two answers are the same, so the answer does not
\* tell which of the two was wrong.
C15_LoginRevealsNothing ==
    [][last'.action = "login"
       => \A d1 \in LoginPayloads :
             (login(d1) /\ login_is_bad(d1))
             => /\ last'.status = HTTP_400_BAD_REQUEST
                /\ last'.detail # "access, refresh"
                /\ \A d2 \in LoginPayloads :
                      (login_is_bad(d2) /\ d2.password = d1.password)
                      => login_response(d2) =
                            [status |-> last'.status, detail |-> last'.detail]]_vars

\* a login named a stored user with a password of the right form that is not
\* theirs and was refused, while another address is not registered at all
C15_Witness ==
    /\ last.action = "login"
    /\ last.status = HTTP_400_BAD_REQUEST
    /\ last.pk # 0
    /\ last.detail = "Invalid email or password."
    /\ \E email \in Emails : get_by_email(email) = 0

\* the requests that read posts and comments
PublicReads ==
    {"posts.list", "posts.retrieve", "comments.list", "comments.retrieve",
     "posts.comments.GET"}

\* C17: list and retrieve of posts, list and retrieve of comments and GET of a
\* post's comments are permitted to every caller, also one without
\* credentials, whoever owns the post: the answer is 200 (404 when the id
\* names no row), never a refusal.
C17_PublicReads ==
    [][last'.action \in PublicReads
       => /\ last'.status \notin {HTTP_401_UNAUTHORIZED, HTTP_403_FORBIDDEN}
          /\ last'.status = IF last'.action \in {"posts.list", "comments.list"}
                            THEN HTTP_200_OK
                            ELSE IF last'.action = "comments.retrieve"
                            THEN IF RowExists(comments, last'.pk)
                                 THEN HTTP_200_OK ELSE HTTP_404_NOT_FOUND
                            ELSE IF RowExists(posts, last'.pk)
                                 THEN HTTP_200_OK ELSE HTTP_404_NOT_FOUND]_vars

\* C18: an update or destroy of a comment by its author is permitted and takes
\* effect, and the same request by another authenticated user is denied and
\* leaves the comment unchanged.
C18_OnlyAuthorEditsComment ==
    [][(/\ last'.action \in {"comments.update", "comments.destroy"}
        /\ last'.user # Anonymous
        /\ RowExists(comments, last'.pk))
       => IF comments[last'.pk].user = last'.user
          THEN /\ last'.status \in {HTTP_200_OK, HTTP_204_NO_CONTENT, HTTP_400_BAD_REQUEST}
               /\ last'.status = HTTP_204_NO_CONTENT => ~RowExists(comments', last'.pk)
               /\ last'.status = HTTP_200_OK => comments'[last'.pk] # comments[last'.pk]
          ELSE /\ last'.status = HTTP_403_FORBIDDEN
               /\ comments' = comments]_vars


\* the requests that change a post
PostWrites == {"posts.update", "posts.partial_update", "posts.destroy"}

\* C19: an update, partial_update or destroy of a post by an authenticated user
\* who does not own the post's restaurant is answered 403 and leaves the post
\* (and its comments and likes) unchanged; the owner of the post's restaurant
\* is not refused (no 401, no 403), and the owner's destroy answers 204 and
\* removes the post.
C19_PostWritesNeedOwnership ==
    [][(/\ last'.action \in PostWrites
        /\ last'.user # Anonymous
        /\ RowExists(posts, last'.pk))
       => IF restaurants[posts[last'.pk].restaurant].owner # last'.user
          THEN /\ last'.status = HTTP_403_FORBIDDEN
               /\ UNCHANGED <<posts, comments, likes>>
          ELSE /\ last'.status \notin {HTTP_401_UNAUTHORIZED, HTTP_403_FORBIDDEN}
               /\ last'.action = "posts.destroy"
                  => /\ last'.status = HTTP_204_NO_CONTENT
                     /\ ~RowExists(posts', last'.pk)]_vars

\* a post carries the title its owner gave it with PATCH, and a user who does
\* not own its restaurant has just been refused a write of it
C19_Witness ==
    /\ last.action \in PostWrites
    /\ last.status = HTTP_403_FORBIDDEN
    /\ RowExists(posts, last.pk)
    /\ posts[last.pk].title = "u"
    /\ restaurants[posts[last.pk].restaurant].owner # last.user


\* C20: destroy of a subscription by an authenticated user it does not belong
\* to is answered 403 and the subscription is still there afterwards; destroy
\* by its user answers 204 and removes it.
C20_OnlyOwnerUnsubscribes ==
    [][(/\ last'.action = "subscriptions.destroy"
        /\ last'.user # Anonymous
        /\ RowExists(subscriptions, last'.pk))
       => IF subscriptions[last'.pk].user # last'.user
          THEN /\ last'.status = HTTP_403_FORBIDDEN
               /\ subscriptions' = subscriptions
          ELSE /\ last'.status = HTTP_204_NO_CONTENT
               /\ ~RowExists(subscriptions', last'.pk)
               /\ \A i \in DOMAIN subscriptions :
                     i # last'.pk => subscriptions'[i] = subscriptions[i]]_vars

\* one subscription was removed by its user, and a user has just been refused
\* the removal of another's subscription
C20_Witness ==
    /\ last.action = "subscriptions.destroy"
    /\ last.status = HTTP_403_FORBIDDEN
    /\ RowExists(subscriptions, last.pk)
    /\ subscriptions[last.pk].user # last.user
    /\ \E i \in DOMAIN subscriptions : subscriptions[i] = Gone


\* the requests whose URL names a restaurant
RestaurantLookups == {"retrieve", "partial_update", "destroy"}

\* the requests whose URL names a post
PostLookups ==
    {"posts.retrieve", "posts.update", "posts.partial_update", "posts.destroy",
     "posts.like.POST", "posts.like.DELETE", "posts.comments.GET", "posts.comments.POST"}

\* the requests whose URL names a comment
CommentLookups == {"comments.retrieve", "comments.update", "comments.destroy"}

\* the requests whose URL names a subscription
SubscriptionLookups == {"subscriptions.retrieve", "subscriptions.destroy"}

\* the detail endpoints that ask for no credentials
OpenLookups == {"users.retrieve", "posts.retrieve", "comments.retrieve"}

\* the request answered in this step addresses something that is not there:
\* an id that names no row of its table, or the removal of a like of a post
\* the caller has not liked
names_nothing ==
    \/ last'.action \in RestaurantLookups /\ ~RestaurantExists(last'.pk)
    \/ last'.action = "users.retrieve" /\ last'.pk \notin DOMAIN users
    \/ last'.action \in PostLookups /\ ~RowExists(posts, last'.pk)
    \/ last'.action \in CommentLookups /\ ~RowExists(comments, last'.pk)
    \/ last'.action \in SubscriptionLookups /\ ~RowExists(subscriptions, last'.pk)
    \/ last'.action = "likes.destroy" /\ ~RowExists(likes, last'.pk)
    \/ last'.action = "posts.like.DELETE" /\ likes_by(last'.user, last'.pk) = {}

\* C16 as stated: every request that addresses a resource that does not exist
\* (a restaurant id, a user id in GET users/{id}, a post id, a comment id, a
\* subscription id, an absent like) is answered 404.  It is read for callers
\* with credentials: a request without them is answered 401 wherever the
\* endpoint asks for them, whatever it addresses.
C16_MissingIs404 ==
    [][(names_nothing /\ last'.user # Anonymous)
       => last'.status = HTTP_404_NOT_FOUND]_vars

\* C16, amended: a request that addresses a restaurant id, post id, comment id
\* or subscription id that names no row, or a like that is absent, is answered
\* 404 when it passes the endpoint's check of credentials, and 401 when it
\* carries none and the endpoint asks for them; GET users/{id} for an id with
\* no user is answered 400 "User not found.".  None of them changes a table.
C16_MissingIs404Or400 ==
    [][names_nothing
       => /\ last'.status =
                IF last'.action = "users.retrieve" THEN HTTP_400_BAD_REQUEST
                ELSE IF last'.user = Anonymous /\ last'.action \notin OpenLookups
                THEN HTTP_401_UNAUTHORIZED
                ELSE HTTP_404_NOT_FOUND
          /\ last'.action = "users.retrieve" => last'.detail = "User not found."
          /\ UNCHANGED <<db, services>>]_vars

\* an authenticated caller has just been told 404 for the id of a post that
\* was deleted, while comments of it were deleted with it
C16_Witness ==
    /\ last.action \in PostLookups
    /\ last.user # Anonymous
    /\ last.status = HTTP_404_NOT_FOUND
    /\ last.pk \in DOMAIN posts /\ posts[last.pk] = Gone
    /\ \E c \in DOMAIN comments : comments[c] = Gone


\* user u has a like on post pk
has_liked(table, u, pk) ==
    \E l \in DOMAIN table : table[l] = [user |-> u, discount_post |-> pk]

\* C21: no (user, post) pair ever has two likes, and posts/{pk}/like by an
\* authenticated user on a post that exists does this: POST when the user has
\* not liked the post creates the like (201), POST when already liked answers
\* 400 and changes nothing, DELETE when liked removes the like (204), DELETE
\* when not liked answers 404 and changes nothing.
C21_LikeOncePerPair ==
    /\ [](\A a, b \in DOMAIN likes : (likes[a] # Gone /\ likes[a] = likes[b]) => a = b)
    /\ [][(/\ last'.action \in {"posts.like.POST", "posts.like.DELETE"}
           /\ last'.user # Anonymous
           /\ RowExists(posts, last'.pk))
          => IF last'.action = "posts.like.POST"
             THEN IF ~has_liked(likes, last'.user, last'.pk)
                  THEN /\ last'.status = HTTP_201_CREATED
                       /\ has_liked(likes', last'.user, last'.pk)
                       /\ \A l \in DOMAIN likes : likes'[l] = likes[l]
                  ELSE /\ last'.status = HTTP_400_BAD_REQUEST
                       /\ likes' = likes
             ELSE IF has_liked(likes, last'.user, last'.pk)
                  THEN /\ last'.status = HTTP_204_NO_CONTENT
                       /\ ~has_liked(likes', last'.user, last'.pk)
                       /\ \A l \in DOMAIN likes :
                             likes[l] # [user |-> last'.user, discount_post |-> last'.pk]
                             => likes'[l] = likes[l]
                  ELSE /\ last'.status = HTTP_404_NOT_FOUND
                       /\ likes' = likes]_vars

\* two likes are stored and a user who already likes the post has just been
\* refused a second like of it
C21_Witness ==
    /\ last.action = "posts.like.POST"
    /\ last.status = HTTP_400_BAD_REQUEST
    /\ has_liked(likes, last.user, last.pk)
    /\ Cardinality(Rows(likes)) = 2


\* C22: a restaurant created through add is owned by the caller, whatever the
\* request body says, a body that names another user as owner included: the
\* request adds one row, and the owner of that row is the caller.
C22_AddOwnerIsCaller ==
    [][(last'.action = "add" /\ last'.status = HTTP_201_CREATED)
       => /\ Len(restaurants') = Len(restaurants) + 1
          /\ last'.pk = Len(restaurants')
          /\ restaurants'[last'.pk].owner = last'.user
          /\ \A r \in DOMAIN restaurants : restaurants'[r] = restaurants[r]]_vars

\* a restaurant has just been created by a request whose body named another
\* stored user as owner
C22_Witness ==
    /\ last.action = "add"
    /\ last.status = HTTP_201_CREATED
    /\ \E other \in DOMAIN users : other # last.user /\ last.ids = {other}
    /\ restaurants[last.pk].owner = last.user


\* C23: an add request changes a user's role to owner only if it persists its
\* restaurant: in no state has a user the role owner, written by an add
\* request, while no restaurant of that user was created.
C23_PromotionFollowsSuccess ==
    \A u \in DOMAIN users :
        (users[u].role = OWNER /\ users[u].role_writes > 0) => OwnedBy(u) # {}


\* the subscriptions the response of this step returns
returned_subscriptions ==
    IF last'.status # HTTP_200_OK THEN {}
    ELSE IF last'.action = "subscriptions.list" THEN last'.ids
    ELSE IF last'.action = "subscriptions.retrieve" THEN {last'.pk}
    ELSE {}

\* C24: no list or retrieve request by an authenticated user, with any value
\* of the user query parameter, returns a subscription of another user.
C24_SubscriptionsArePrivate ==
    [][\A i \in returned_subscriptions : subscriptions[i].user = last'.user]_vars


\* C25: PostViewSet.create validates the payload before it saves: a valid
\* request by the owner of the restaurant it names creates exactly one post
\* and is answered 201, and any other request by an authenticated caller (a
\* restaurant of another owner, a missing field) creates no post.
C25_CreateValidatesFirst ==
    [][(last'.action = "posts.create" /\ last'.user # Anonymous)
       => \A data \in PostPayloads :
             posts_create(last'.user, data)
             => IF /\ RestaurantExists(data.restaurant)
                   /\ restaurants[data.restaurant].owner = last'.user
                   /\ data.title # Missing
                THEN /\ last'.status = HTTP_201_CREATED
                     /\ Len(posts') = Len(posts) + 1
                     /\ posts'[Len(posts')] =
                           [restaurant |-> data.restaurant, title |-> data.title]
                ELSE posts' = posts]_vars


\* C26: the owner of a restaurant never changes: no request, whatever its
\* payload (a PATCH body with an owner key included), gives a stored
\* restaurant another owner than the one it had.
C26_OwnerNeverChanges ==
    [][\A r \in DOMAIN restaurants : restaurants'[r].owner = restaurants[r].owner]_vars


\* the actions that work on "the restaurant of the caller"
OwnerScoped == {"set_image", "assign_categories", "add_delivery_method"}

\* C27: once an owner's only restaurant has been deleted through the API, a
\* later set_image, assign_categories or delivery toggle by that owner (with a
\* body the serializer accepts) is answered 404 and changes no image and no
\* link of the deleted restaurant.
C27_DeletedIsGoneForOwner ==
    [][(/\ last'.action \in OwnerScoped
        /\ last'.user # Anonymous
        /\ last'.status # HTTP_400_BAD_REQUEST
        /\ Cardinality(OwnedBy(last'.user)) = 1
        /\ \A r \in OwnedBy(last'.user) : restaurants[r].deleted_at = SET)
       => /\ last'.status = HTTP_404_NOT_FOUND
          /\ UNCHANGED <<restaurants, restaurant_category>>]_vars


\* the owner-scoped actions of both restaurant apps
OwnerScopedAll ==
    OwnerScoped \cup {"restaurant.assign_categories", "restaurant.unassign_categories"}

\* C28: an owner-scoped action by an authenticated caller, however many
\* restaurants the caller owns, ends in 200, 400 or 404, never in an
\* unhandled error, and what a 200 changes is one restaurant of the caller.
C28_NoUnhandledError ==
    [][(last'.action \in OwnerScopedAll /\ last'.user # Anonymous)
       => /\ last'.status \in {HTTP_200_OK, HTTP_400_BAD_REQUEST, HTTP_404_NOT_FOUND}
          /\ last'.status = HTTP_200_OK
             => /\ last'.pk \in OwnedBy(last'.user)
                /\ \A r \in DOMAIN restaurants :
                      r # last'.pk
                      => /\ restaurants'[r] = restaurants[r]
                         /\ categories_in(restaurant_category', r) = categories(r)]_vars


\* one assign_categories request run alone on the links C with the id list S
toggle(C, S) ==
    IF categories_overlap(C, S) THEN categories_remove(C, S) ELSE categories_set(C, S)

\* C29: two assign_categories requests on the same restaurant that run
\* concurrently (both checked the same links before either wrote) leave the
\* links that running them one after the other, in one of the two orders,
\* would leave.
C29_TogglesSerializable ==
    [][\A i \in DOMAIN pending :
          (/\ pending[i].rival_ids # {}
           /\ categories(pending[i].restaurant) = pending[i].rival_result
           /\ assign_categories_write(i))
          => categories_in(restaurant_category', pending[i].restaurant)
                \in {toggle(toggle(pending[i].start, pending[i].rival_ids), pending[i].ids),
                     toggle(toggle(pending[i].start, pending[i].ids), pending[i].rival_ids)}]_vars


\* this step answers the second of two consecutive assign_categories requests
\* of one owner with the same id list, both answered 200
second_of_two ==
    /\ last.action = "assign_categories" /\ last.status = HTTP_200_OK
    /\ last'.action = "assign_categories" /\ last'.status = HTTP_200_OK
    /\ last'.user = last.user
    /\ last'.ids = last.ids

\* C30 as stated: for every category set C of a restaurant and every non-empty
\* id list S, two consecutive assign_categories requests by the owner with the
\* same S leave the restaurant with C again.
C30_ToggleInvolution ==
    [][second_of_two => categories_in(restaurant_category', last'.pk) = last.before]_vars

\* C30, amended: two consecutive assign_categories requests by the owner with
\* the same non-empty S leave the restaurant with S when C and S overlapped and
\* with no category when they did not; that is C again exactly when C is empty
\* or C = S.
C30_ToggleTwice ==
    [][second_of_two
       => /\ categories_in(restaurant_category', last'.pk) =
                IF last.before \cap last.ids # {} THEN last.ids ELSE {}
          /\ categories_in(restaurant_category', last'.pk) = last.before
             <=> (last.before = {} \/ last.before = last.ids)]_vars

\* a restaurant that had the categories {1, 2} has answered two requests with
\* the id list {1}: the first left {2}, the second has just replaced it by {1}
C30_Witness ==
    /\ last.action = "assign_categories"
    /\ last.status = HTTP_200_OK
    /\ last.detail = "Categories assigned."
    /\ last.ids = {1}
    /\ last.before = {2}
    /\ categories(last.pk) = {1}

====
